---- MODULE Spec2Model ----
(***************************************************************************)
(* The block-availability crawler of core/src/crawl_client.rs: the loop    *)
(* `run` that receives events from a broadcast channel, builds a verified  *)
(* block from every header update, paces, samples cells and rows from the  *)
(* DHT, records metrics and forwards the block.                            *)
(*                                                                         *)
(* Time is counted in ticks, TicksPerSec ticks to the second, so that the  *)
(* truncation of `Duration::as_secs` is visible.  A success rate (an f64   *)
(* quotient of two small counts) is kept as the quotient in lowest terms,  *)
(* <<n, d>>, with <<0, 0>> for NaN and <<1, 0>> for +inf.                  *)
(***************************************************************************)
EXTENDS Integers, Sequences, FiniteSets, TLC

\* ---------------------------------------------------------------- bounds
MaxEvents == 3      \* events the producers send in one behaviour
Capacity == 2       \* capacity of the inbound broadcast channel
MaxRows == 2        \* rows of a block's (unextended) matrix
MaxTime == 1        \* ticks the environment lets pass on its own
TicksPerSec == 2    \* clock resolution

\* ------------------------------------------------------- program constants
CrawlBlockDelay == 20   \* CrawlConfig::default().crawl_block_delay, seconds

ENTIRE_BLOCK == [number |-> 1, fraction |-> 1]

CrawlMode == {"Rows", "Cells", "Both"}

\* the `partition` argument of run: the whole matrix, or its third quarter
\* (which holds no cell of a matrix of two cells)
Partitions == {ENTIRE_BLOCK, [number |-> 3, fraction |-> 4]}

\* the `delay` argument of run, in seconds
Delays == {0, CrawlBlockDelay}

\* What a header is to run: whether it converts to a BlockVerified, whether
\* that block has an extension, and the extension's dimensions.
HeaderShapes ==
    {[valid |-> FALSE, ext |-> FALSE, rows |-> 1, cols |-> 1],
     [valid |-> TRUE, ext |-> FALSE, rows |-> 1, cols |-> 1]}
    \cup {[valid |-> TRUE, ext |-> TRUE, rows |-> r, cols |-> 1] : r \in 1..MaxRows}
    \cup {[valid |-> TRUE, ext |-> TRUE, rows |-> 1, cols |-> 2]}

\* rpc::Event as it travels on the inbound channel.  Nothing reads a header
\* before run receives it, so its shape is drawn at the receive.
HeaderUpdate(t, n) == [kind |-> "HeaderUpdate", received_at |-> t, block_num |-> n]

OtherEvent(t, n) == [kind |-> "Other", received_at |-> t, block_num |-> n]

\* the block run is working on: the received header update and its header
Block(e, h) ==
    [block_num |-> e.block_num, received_at |-> e.received_at,
     valid |-> h.valid, ext |-> h.ext, rows |-> h.rows, cols |-> h.cols]

NoBlock ==
    [block_num |-> 0, received_at |-> 0,
     valid |-> FALSE, ext |-> FALSE, rows |-> 1, cols |-> 1]

VARIABLES
    mode,       \* run's argument mode
    partition,  \* run's argument partition
    delay,      \* run's argument delay, seconds
    produced,   \* number of events sent so far; the n-th event is block n
    chan,       \* events buffered in the inbound channel for message_rx
    lagged,     \* message_rx missed events that the buffer overwrote
    closed,     \* every sender of the inbound channel has been dropped
    now,        \* the clock, ticks
    pc,         \* where run is: recv, sleep, cells, fetching_cells, rows,
                \* fetching_rows, send, done
    cur,        \* the block of the header update run received last
    seconds,    \* the pacing wait computed by sleep_duration, ticks (0: none)
    wake,       \* end of the pacing sleep, ticks
    last,       \* outcome of the latest message_rx.recv()
    metrics,    \* metrics.record calls since the latest header update, in order
    calls,      \* network_client calls since the latest header update, in
                \* order; the latest one may still await its answer
    sleeps,     \* pacing sleeps since the latest header update, in order
    sends,      \* block_sender.send results since the latest header update
    sent        \* block numbers given to block_sender.send, in order

vars == <<mode, partition, delay, produced, chan, lagged, closed, now, pc, cur,
          seconds, wake, last, metrics, calls, sleeps, sends, sent>>

config == <<mode, partition, delay>>
inbound == <<produced, chan, lagged, closed>>
outputs == <<metrics, calls, sleeps, sends, sent>>

\* --------------------------------------------------------------- helpers
RECURSIVE Gcd(_, _)
Gcd(a, b) == IF b = 0 THEN a ELSE Gcd(b, a % b)

\* fetched as f64 / total as f64
SuccessRateSwapped(fetched, total) ==
    IF fetched = 0 THEN (IF total = 0 THEN <<0, 0>> ELSE <<1, 0>>)
    ELSE <<total \div Gcd(total, fetched), fetched \div Gcd(total, fetched)>>

SuccessRate(fetched, total) ==
    IF total = 0 THEN (IF fetched = 0 THEN <<0, 0>> ELSE <<1, 0>>)
    ELSE <<fetched \div Gcd(fetched, total), total \div Gcd(fetched, total)>>

\* Dimensions::extended_rows
ExtendedRows(e) == 2 * e.rows

Min(a, b) == IF a < b THEN a ELSE b

\* Dimensions::iter_extended_partition_positions(&partition), collected: the
\* cells of the extended matrix, in row-major order, that lie in the
\* partition's slice; the slices of all numbers together cover the matrix
PartitionPositions(e, p) ==
    LET extended_size == ExtendedRows(e) * e.cols
        size == (extended_size + p.fraction - 1) \div p.fraction
        start == Min(size * (p.number - 1), extended_size)
        end == Min(size * p.number, extended_size)
    IN  [i \in 1..(end - start) |->
            [row |-> (start + i - 1) \div e.cols, col |-> (start + i - 1) % e.cols]]

\* (0..dimensions.extended_rows()).collect(), the stride forgotten
RowIndicesEveryRow(e) == [i \in 1..ExtendedRows(e) |-> i - 1]

\* (0..dimensions.extended_rows()).step_by(2).collect()
RowIndices(e) ==
    [i \in 1..((ExtendedRows(e) + 1) \div 2) |-> 2 * (i - 1)]

\* .iter().step_by(2).flatten().count() over the per-row options
CountPresent(res) == Cardinality({i \in 1..Len(res) : i % 2 = 1 /\ res[i]})

\* network_client.fetch_cells_from_dht(block_number, &positions): the cells
\* fetched and the positions left unfetched, which together are the request
FetchCellsResults(positions) ==
    {[fetched |-> n, unfetched |-> Len(positions) - n] : n \in 0..Len(positions)}

\* network_client.fetch_rows_from_dht(block_number, dimensions, &rows): one
\* optional row per requested index (TRUE: present)
FetchRowsResults(rows) == [1..Len(rows) -> BOOLEAN]

\* Delay::sleep_duration(received_at): what is left of the delay, or none (0)
SleepDuration(d, received_at, t) ==
    LET left == d * TicksPerSec - (t - received_at)
    IN  IF left > 0 THEN left ELSE 0

\* the wait rounded up to whole seconds
AsSecsRoundedUp(ticks) == (ticks + TicksPerSec - 1) \div TicksPerSec

\* seconds.as_secs() as f64: the whole seconds of the Duration
AsSecs(ticks) == ticks \div TicksPerSec

\* types::BlockVerified::try_from((header, None)) and the extension check:
\* what run does with a header update before pacing
IntakeUnvalidated(e) ==
    IF ~e.ext /\ e.valid THEN "skip" ELSE "sample"

IntakeUnextended(e) ==
    IF ~e.valid THEN "skip" ELSE "sample"

Intake(e) ==
    IF ~e.valid THEN "skip"
    ELSE IF ~e.ext THEN "skip"
    ELSE "sample"

\* the gates of the two sampling strategies
CellsGateCellsOnly(m) == m = "Cells"

CellsGate(m) == m \in {"Cells", "Both"}

RowsGate(m) == m \in {"Cells", "Both"}

Metric(name, block, value) == [name |-> name, block |-> block, value |-> value]

\* ------------------------------------------------------------------ Init
Init ==
    /\ mode \in CrawlMode
    /\ partition \in Partitions
    /\ delay \in Delays
    /\ produced = 0
    /\ chan = <<>>
    /\ lagged = FALSE
    /\ closed = FALSE
    /\ now = 0
    /\ pc = "recv"
    /\ cur = NoBlock
    /\ seconds = 0
    /\ wake = 0
    /\ last = "none"
    /\ metrics = <<>>
    /\ calls = <<>>
    /\ sleeps = <<>>
    /\ sends = <<>>
    /\ sent = <<>>

\* ----------------------------------------------------------- environment
\* a producer sends an event; a full buffer drops its oldest value and the
\* receiver finds out at its next recv
Produce(e) ==
    /\ pc # "done"
    /\ ~closed
    /\ produced < MaxEvents
    /\ produced' = produced + 1
    /\ IF Len(chan) < Capacity
       THEN chan' = Append(chan, e) /\ lagged' = lagged
       ELSE chan' = Append(Tail(chan), e) /\ lagged' = TRUE
    /\ UNCHANGED <<config, closed, now, pc, cur, seconds, wake, last, outputs>>

SendHeader == Produce(HeaderUpdate(now, produced + 1))

SendOther == Produce(OtherEvent(now, produced + 1))

\* the last sender is dropped
Close ==
    /\ pc # "done"
    /\ ~closed
    /\ closed' = TRUE
    /\ UNCHANGED <<config, produced, chan, lagged, now, pc, cur, seconds, wake, last, outputs>>

Tick ==
    /\ pc # "done"
    /\ now < MaxTime
    /\ now' = now + 1
    /\ UNCHANGED <<config, inbound, pc, cur, seconds, wake, last, outputs>>

\* ------------------------------------------------------------------- run
\* message_rx.recv() returns Err(Lagged): the while-let pattern fails
RecvLagged ==
    /\ pc = "recv"
    /\ lagged
    /\ lagged' = FALSE
    /\ last' = "Lagged"
    /\ pc' = "done"
    /\ UNCHANGED <<config, produced, chan, closed, now, cur, seconds, wake, outputs>>

\* message_rx.recv() returns Err(Closed): the buffer is drained, no sender left
RecvClosed ==
    /\ pc = "recv"
    /\ ~lagged
    /\ chan = <<>>
    /\ closed
    /\ last' = "Closed"
    /\ pc' = "done"
    /\ UNCHANGED <<config, inbound, now, cur, seconds, wake, outputs>>

\* message_rx.recv() returns Ok(event) that is no HeaderUpdate: the while-let
\* pattern fails
RecvOther ==
    /\ pc = "recv"
    /\ ~lagged
    /\ chan # <<>>
    /\ Head(chan).kind # "HeaderUpdate"
    /\ chan' = Tail(chan)
    /\ last' = "Other"
    /\ pc' = "done"
    /\ UNCHANGED <<config, produced, lagged, closed, now, cur, seconds, wake, outputs>>

\* message_rx.recv() returns Ok(HeaderUpdate): build the block, check the
\* extension, compute the pacing wait
RecvHeader ==
    /\ pc = "recv"
    /\ ~lagged
    /\ chan # <<>>
    /\ Head(chan).kind = "HeaderUpdate"
    /\ chan' = Tail(chan)
    /\ last' = "HeaderUpdate"
    /\ metrics' = <<>>
    /\ calls' = <<>>
    /\ sleeps' = <<>>
    /\ sends' = <<>>
    /\ \E h \in HeaderShapes :
          LET block == Block(Head(chan), h)
              wait == SleepDuration(delay, block.received_at, now)
          IN  /\ cur' = block
              /\ IF Intake(block) = "skip"
                 THEN pc' = "recv" /\ seconds' = 0 /\ wake' = 0
                 ELSE IF wait > 0
                 THEN pc' = "sleep" /\ seconds' = wait /\ wake' = now + wait
                 ELSE pc' = "cells" /\ seconds' = 0 /\ wake' = 0
    /\ UNCHANGED <<config, produced, lagged, closed, now, sent>>

\* the sleep future dropped unawaited: no time passes
SleepDoneNotAwaited ==
    /\ pc = "sleep"
    /\ sleeps' = Append(sleeps,
          [block |-> cur.block_num, until |-> wake, ticks |-> seconds])
    /\ metrics' = Append(metrics,
          Metric("BlockDelay", cur.block_num, <<AsSecs(seconds), 1>>))
    /\ seconds' = 0
    /\ wake' = 0
    /\ pc' = "cells"
    /\ UNCHANGED <<config, inbound, now, cur, last, calls, sends, sent>>

\* tokio::time::sleep(seconds) completes, at its deadline or later;
\* BlockDelay(seconds.as_secs()) is recorded, the result of record dropped
SleepDone ==
    /\ pc = "sleep"
    /\ sleeps' = Append(sleeps,
          [block |-> cur.block_num, until |-> wake, ticks |-> seconds])
    /\ metrics' = Append(metrics,
          Metric("BlockDelay", cur.block_num, <<AsSecs(seconds), 1>>))
    /\ now' = IF now < wake THEN wake ELSE now
    /\ seconds' = 0
    /\ wake' = 0
    /\ pc' = "cells"
    /\ UNCHANGED <<config, inbound, cur, last, calls, sends, sent>>

\* a network_client call as run issues it, not yet answered
Call(op, req, pending) ==
    [op |-> op, block |-> cur.block_num, at |-> now, req |-> req,
     answered |-> FALSE, ret |-> pending]

\* the latest call gets its answer
Answer(ret) ==
    [calls EXCEPT ![Len(calls)] = [@ EXCEPT !.answered = TRUE, !.ret = ret]]

\* lines 139-148: the gate of cell sampling, the positions of the partition
\* and the call of fetch_cells_from_dht; run is suspended until the answer
SampleCells ==
    /\ pc = "cells"
    /\ IF CellsGate(mode)
       THEN /\ calls' = Append(calls,
                  Call("fetch_cells", PartitionPositions(cur, partition),
                       [fetched |-> 0, unfetched |-> 0]))
            /\ pc' = "fetching_cells"
       ELSE /\ calls' = calls
            /\ pc' = "rows"
    /\ UNCHANGED <<config, inbound, now, cur, seconds, wake, last, metrics, sleeps, sends, sent>>

\* the answer of fetch_cells_from_dht with the send moved up into the block
\* of cell sampling, before row sampling
CellsFetchedForwards ==
    /\ pc = "fetching_cells"
    /\ LET total == Len(calls[Len(calls)].req)
       IN  \E ret \in FetchCellsResults(calls[Len(calls)].req), ok \in BOOLEAN :
              /\ calls' = Answer(ret)
              /\ metrics' = Append(metrics,
                    Metric("CellsSuccessRate", cur.block_num,
                           SuccessRate(ret.fetched, total)))
              /\ sends' = Append(sends, [block |-> cur.block_num, ok |-> ok])
              /\ sent' = Append(sent, cur.block_num)
    /\ pc' = "rows"
    /\ UNCHANGED <<config, inbound, now, cur, seconds, wake, last, sleeps>>

\* the answer of fetch_cells_from_dht, asked again while nothing was fetched
CellsFetchedRetry ==
    /\ pc = "fetching_cells"
    /\ LET total == Len(calls[Len(calls)].req)
       IN  \E ret \in FetchCellsResults(calls[Len(calls)].req) :
              /\ calls' = Answer(ret)
              /\ IF ret.fetched = 0 /\ Len(calls) < 2
                 THEN pc' = "cells" /\ metrics' = metrics
                 ELSE /\ pc' = "rows"
                      /\ metrics' = Append(metrics,
                            Metric("CellsSuccessRate", cur.block_num,
                                   SuccessRate(ret.fetched, total)))
    /\ UNCHANGED <<config, inbound, now, cur, seconds, wake, last, sleeps, sends, sent>>

\* lines 148-161: fetch_cells_from_dht answers; the rate is computed from the
\* number of cells fetched and recorded, the result of record dropped
CellsFetched ==
    /\ pc = "fetching_cells"
    /\ LET total == Len(calls[Len(calls)].req)
       IN  \E ret \in FetchCellsResults(calls[Len(calls)].req) :
              LET fetched == ret.fetched
              IN  /\ calls' = Answer(ret)
                  /\ metrics' = Append(metrics,
                        Metric("CellsSuccessRate", cur.block_num,
                               SuccessRate(fetched, total)))
    /\ pc' = "rows"
    /\ UNCHANGED <<config, inbound, now, cur, seconds, wake, last, sleeps, sends, sent>>

\* lines 163-169: the gate of row sampling, the row indices and the call of
\* fetch_rows_from_dht; run is suspended until the answer
SampleRows ==
    /\ pc = "rows"
    /\ IF RowsGate(mode)
       THEN /\ calls' = Append(calls, Call("fetch_rows", RowIndices(cur), <<>>))
            /\ pc' = "fetching_rows"
       ELSE /\ calls' = calls
            /\ pc' = "send"
    /\ UNCHANGED <<config, inbound, now, cur, seconds, wake, last, metrics, sleeps, sends, sent>>

\* lines 169-183: fetch_rows_from_dht answers; the rows present are counted,
\* the rate computed and recorded, the result of record dropped
RowsFetched ==
    /\ pc = "fetching_rows"
    /\ LET rows == calls[Len(calls)].req
           total == Len(rows)
       IN  \E res \in FetchRowsResults(rows) :
              LET fetched == CountPresent(res)
              IN  /\ calls' = Answer(res)
                  /\ metrics' = Append(metrics,
                        Metric("RowsSuccessRate", cur.block_num,
                               SuccessRate(fetched, total)))
    /\ pc' = "send"
    /\ UNCHANGED <<config, inbound, now, cur, seconds, wake, last, sleeps, sends, sent>>

\* block_sender.send(block) with the Err arm returning from run
ForwardAbortsOnError ==
    /\ pc = "send"
    /\ \E ok \in BOOLEAN :
          /\ sends' = Append(sends, [block |-> cur.block_num, ok |-> ok])
          /\ pc' = IF ok THEN "recv" ELSE "done"
    /\ sent' = Append(sent, cur.block_num)
    /\ UNCHANGED <<config, inbound, now, cur, seconds, wake, last, metrics, calls, sleeps>>

\* the block is forwarded only when some sampled item was fetched
ForwardOnlyIfFetched ==
    /\ pc = "send"
    /\ IF \E i \in 1..Len(metrics) :
              metrics[i].name # "BlockDelay" /\ metrics[i].value[1] = 0
       THEN UNCHANGED <<sends, sent>>
       ELSE /\ \E ok \in BOOLEAN :
                  sends' = Append(sends, [block |-> cur.block_num, ok |-> ok])
            /\ sent' = Append(sent, cur.block_num)
    /\ pc' = "recv"
    /\ UNCHANGED <<config, inbound, now, cur, seconds, wake, last, metrics, calls, sleeps>>

\* the send is issued twice for one block
ForwardTwice ==
    /\ pc = "send"
    /\ \E ok \in BOOLEAN :
          sends' = Append(sends, [block |-> cur.block_num, ok |-> ok])
    /\ sent' = Append(Append(sent, cur.block_num), cur.block_num)
    /\ pc' = "recv"
    /\ UNCHANGED <<config, inbound, now, cur, seconds, wake, last, metrics, calls, sleeps>>

\* lines 185-191: block_sender.send(block); an Err (no receiver) is logged
Forward ==
    /\ pc = "send"
    /\ \E ok \in BOOLEAN :
          sends' = Append(sends, [block |-> cur.block_num, ok |-> ok])
    /\ sent' = Append(sent, cur.block_num)
    /\ pc' = "recv"
    /\ UNCHANGED <<config, inbound, now, cur, seconds, wake, last, metrics, calls, sleeps>>

Next ==
    \/ SendHeader
    \/ SendOther
    \/ Close
    \/ Tick
    \/ RecvLagged
    \/ RecvClosed
    \/ RecvOther
    \/ RecvHeader
    \/ SleepDone
    \/ SampleCells
    \/ CellsFetched
    \/ SampleRows
    \/ RowsFetched
    \/ Forward

Spec == Init /\ [][Next]_vars

\* the steps of run: the task is scheduled until it returns; run has no
\* timeout of its own, so fairness on these steps takes every sleep to end
\* and every sampler call to be answered
RunStep ==
    \/ RecvLagged
    \/ RecvClosed
    \/ RecvOther
    \/ RecvHeader
    \/ SleepDone
    \/ SampleCells
    \/ CellsFetched
    \/ SampleRows
    \/ RowsFetched
    \/ Forward

FairSpec == Spec /\ WF_vars(RunStep)

\* ---------------------------------------------------------------- claims
\* what the latest header update has caused so far
NoOutput ==
    /\ metrics = <<>>
    /\ calls = <<>>
    /\ sleeps = <<>>
    /\ sends = <<>>
    /\ \A i \in 1..Len(sent) : sent[i] # cur.block_num

\* C1: receiving an event that is not a header update does not end the loop:
\* run is never returned with a non-header event as the last thing it received.
C1_OtherEventDoesNotEndLoop == ~(pc = "done" /\ last = "Other")

\* C2: run returns only after the inbound channel was closed: when the loop
\* has exited, its last receive reported Closed, never Lagged.  (An exit on
\* a non-header event is C1's case and is left aside here.)
C2_ReturnsOnlyOnClosed == (pc = "done" /\ last # "Other") => last = "Closed"

\* C3: once the inbound channel is closed, run returns after processing the
\* header updates still buffered: when run has returned from a closed
\* channel, no header update is left unreceived in the buffer.  (An exit on
\* a non-header event is C1's case and is left aside here.)
C3_ClosedDrainsThenReturns ==
    (pc = "done" /\ closed /\ last # "Other")
        => \A i \in 1..Len(chan) : chan[i].kind # "HeaderUpdate"

\* the liveness half of C3: a closed channel leads to run's return
C3_ClosedLeadsToReturn == closed ~> (pc = "done")

\* C4: a header update whose header fails BlockVerified construction causes no
\* pacing wait, no sampler call, no metric and no forwarded block, and run
\* goes back to receiving: the step that receives it leaves run at the recv.
C4_InvalidHeaderSkipped ==
    /\ [](cur.block_num # 0 /\ ~cur.valid => NoOutput /\ pc \in {"recv", "done"})
    /\ [][cur'.block_num # cur.block_num /\ ~cur'.valid
             => pc' = "recv" /\ sent' = sent]_vars

\* C4 happens: an invalid header was received, run waits at the recv and the
\* next event is already buffered
C4_Witness ==
    /\ cur.block_num # 0
    /\ ~cur.valid
    /\ last = "HeaderUpdate"
    /\ pc = "recv"
    /\ chan # <<>>

\* C5: a header update whose verified block has no extension causes no metric,
\* no sampler call and no send on the outbound stream, and run goes back to
\* receiving.
C5_NoExtensionSkipped ==
    /\ [](cur.valid /\ ~cur.ext => NoOutput /\ pc \in {"recv", "done"})
    /\ [][cur'.block_num # cur.block_num /\ cur'.valid /\ ~cur'.ext
             => pc' = "recv" /\ sent' = sent]_vars

\* C5 happens: a block without extension was received, run waits at the recv
\* and the next event is already buffered
C5_Witness ==
    /\ cur.valid
    /\ ~cur.ext
    /\ last = "HeaderUpdate"
    /\ pc = "recv"
    /\ chan # <<>>

\* the names of the success-rate metrics recorded for the current block
RateNames ==
    LET rates == SelectSeq(metrics, LAMBDA m : m.name # "BlockDelay")
    IN  [i \in 1..Len(rates) |-> rates[i].name]

CallOps == [i \in 1..Len(calls) |-> calls[i].op]

\* the current block went through sampling and reached the send
Sampled == cur.valid /\ cur.ext /\ (pc = "send" \/ sends # <<>>)

\* C6: with mode = Cells only cell sampling runs for a sampled block:
\* fetch-cells is called and CellsSuccessRate recorded, fetch-rows is never
\* called and no RowsSuccessRate is recorded.
C6_CellsModeOnlyCells ==
    mode = "Cells" =>
        /\ \A i \in 1..Len(calls) : calls[i].op # "fetch_rows"
        /\ \A i \in 1..Len(metrics) : metrics[i].name # "RowsSuccessRate"
        /\ Sampled => CallOps = <<"fetch_cells">> /\ RateNames = <<"CellsSuccessRate">>

\* C7: with mode = Rows row sampling runs for a sampled block: fetch-rows is
\* called once and RowsSuccessRate recorded, with no cell sampling and no
\* CellsSuccessRate.
C7_RowsModeSamplesRows ==
    mode = "Rows" =>
        /\ \A i \in 1..Len(calls) : calls[i].op # "fetch_cells"
        /\ \A i \in 1..Len(metrics) : metrics[i].name # "CellsSuccessRate"
        /\ Sampled => CallOps = <<"fetch_rows">> /\ RateNames = <<"RowsSuccessRate">>

\* C8: with mode = Both a sampled block has exactly one CellsSuccessRate and
\* exactly one RowsSuccessRate metric, the cell metric first; before the
\* block reaches the send, the metrics recorded are a prefix of these two.
C8_BothModeOneOfEach ==
    mode = "Both" =>
        /\ Sampled => RateNames = <<"CellsSuccessRate", "RowsSuccessRate">>
        /\ RateNames \in {<<>>, <<"CellsSuccessRate">>,
                          <<"CellsSuccessRate", "RowsSuccessRate">>}
        /\ \A i \in 1..Len(metrics) : metrics[i].block = cur.block_num

\* C8 happens: in mode Both a block was sampled and its send failed or not
C8_Witness ==
    /\ mode = "Both"
    /\ Sampled
    /\ sends # <<>>
    /\ Len(metrics) >= 2

\* the fetch-cells call of the current block
CellCalls == SelectSeq(calls, LAMBDA c : c.op = "fetch_cells")

RowCalls == SelectSeq(calls, LAMBDA c : c.op = "fetch_rows")

\* the f64 value v is the quotient fetched / total of two counts, total > 0
IsQuotient(v, fetched, total) ==
    /\ v[2] > 0
    /\ v[1] * total = fetched * v[2]
    /\ Gcd(v[1], v[2]) = 1

\* C9: the recorded CellsSuccessRate equals fetched / total, total the number
\* of positions enumerated for the partition and fetched the number of cells
\* the sampler returned; the rate lies in [0, 1], and is 1 when every
\* position was fetched.
C9_CellsRateIsFetchedOverTotal ==
    \A i \in 1..Len(metrics) :
        metrics[i].name = "CellsSuccessRate" =>
            /\ Len(CellCalls) = 1
            /\ LET call == CellCalls[1]
                   total == Len(call.req)
                   fetched == call.ret.fetched
                   v == metrics[i].value
               IN  /\ call.req = PartitionPositions(cur, partition)
                   /\ fetched <= total
                   /\ total > 0 =>
                         /\ IsQuotient(v, fetched, total)
                         /\ 0 <= v[1] /\ v[1] <= v[2]
                         /\ fetched = total => v = <<1, 1>>

\* C9 happens: 1 of 4 positions fetched, recorded as 0.25
C9_Witness ==
    \E i \in 1..Len(metrics) :
        /\ metrics[i].name = "CellsSuccessRate"
        /\ metrics[i].value = <<1, 4>>
        /\ Len(CellCalls) = 1
        /\ CellCalls[1].ret.fetched = 1
        /\ Len(CellCalls[1].req) = 4

\* C10: the recorded RowsSuccessRate equals the number of requested rows the
\* sampler returned present over the number of requested rows; it is 1 when
\* every requested row was retrieved.  (Stated for the modes that include row
\* sampling; what runs in mode Cells is C6's case.)
C10_RowsRateIsPresentOverRequested ==
    \A i \in 1..Len(metrics) :
        (metrics[i].name = "RowsSuccessRate" /\ mode \in {"Rows", "Both"}) =>
            /\ Len(RowCalls) = 1
            /\ LET call == RowCalls[1]
                   requested == Len(call.req)
                   present == Cardinality({k \in 1..Len(call.ret) : call.ret[k]})
               IN  /\ Len(call.ret) = requested
                   /\ IsQuotient(metrics[i].value, present, requested)
                   /\ present = requested => metrics[i].value = <<1, 1>>

\* C11: a failed send on the outbound stream does not end run: the step
\* that gets the Err leaves run at the recv, with the metrics, sampler calls
\* and sleeps of the block as they were; run is never returned with a header
\* update as the last thing it received.
C11_SendFailureContinues ==
    /\ [](pc = "done" => last # "HeaderUpdate")
    /\ [][(sends' # sends /\ sends' # <<>> /\ ~sends'[Len(sends')].ok)
             => /\ pc' = "recv"
                /\ metrics' = metrics
                /\ calls' = calls
                /\ sleeps' = sleeps]_vars

\* C11 happens: the send of a sampled block failed, its metrics are on record
\* and run waits at the recv with the next event buffered
C11_Witness ==
    /\ sends # <<>>
    /\ ~sends[1].ok
    /\ metrics # <<>>
    /\ pc = "recv"
    /\ chan # <<>>
    /\ Head(chan).kind = "HeaderUpdate"

\* received_at + delay of the current block, ticks
Deadline == cur.received_at + delay * TicksPerSec

\* C12: no sampler call of a block starts before received_at + delay; the
\* computed wait is never negative and ends exactly at received_at + delay;
\* a block whose received_at + delay is already past is not slept for.
C12_NoSamplingBeforeDelay ==
    /\ \A i \in 1..Len(calls) : calls[i].at >= Deadline
    /\ seconds >= 0
    /\ pc = "sleep" => seconds > 0 /\ wake = Deadline /\ wake - seconds >= cur.received_at
    /\ \A i \in 1..Len(sleeps) :
          /\ sleeps[i].ticks > 0
          /\ sleeps[i].until = Deadline
    /\ (pc \in {"cells", "fetching_cells", "rows", "fetching_rows", "send"})
          => now >= Deadline

\* C12 happens: a block that waited in the buffer beyond its delay is sampled
\* without a sleep
C12_Witness ==
    /\ delay > 0
    /\ cur.valid /\ cur.ext
    /\ sleeps = <<>>
    /\ calls # <<>>
    /\ now >= Deadline

\* C13: each received header update is sampled at most once per strategy:
\* at most one fetch-cells and at most one fetch-rows call, each for the
\* block of that event, and none is repeated when items were missed.
C13_AtMostOneCallPerStrategy ==
    /\ Len(CellCalls) <= 1
    /\ Len(RowCalls) <= 1
    /\ \A i \in 1..Len(calls) : calls[i].block = cur.block_num
    /\ \A i \in 1..Len(sent) : sent[i] <= cur.block_num

\* C13 happens: a block of which no cell and no row was fetched went on to
\* the send after one call of each kind
C13_Witness ==
    /\ sends # <<>>
    /\ Len(CellCalls) = 1
    /\ CellCalls[1].ret.fetched = 0
    /\ Len(CellCalls[1].req) > 0
    /\ Len(RowCalls) = 1
    /\ \A k \in 1..Len(RowCalls[1].ret) : ~RowCalls[1].ret[k]

\* the BlockDelay metrics of the current block
BlockDelays == SelectSeq(metrics, LAMBDA m : m.name = "BlockDelay")

\* C15 as claimed: the BlockDelay recorded for a block that was slept for is
\* the wait expressed in seconds.
C15_BlockDelayIsWaitInSeconds ==
    sleeps # <<>> =>
        /\ BlockDelays # <<>>
        /\ BlockDelays[1].value[1] * TicksPerSec = sleeps[1].ticks * BlockDelays[1].value[2]

\* C15, amended: BlockDelay is recorded for a block if and only if run slept
\* for it, at most once, after the sleep completes and before any success
\* rate of the block, and its value is the computed wait truncated to whole
\* seconds.
C15_BlockDelayIsWholeSecondsOfWait ==
    /\ Len(sleeps) <= 1
    /\ Len(BlockDelays) = Len(sleeps)
    /\ pc = "sleep" => metrics = <<>> /\ sleeps = <<>>
    /\ sleeps # <<>> =>
          /\ sleeps[1].ticks > 0
          /\ metrics[1].name = "BlockDelay"
          /\ metrics[1].block = cur.block_num
          /\ metrics[1].value[2] = 1
          /\ metrics[1].value[1] * TicksPerSec <= sleeps[1].ticks
          /\ sleeps[1].ticks < (metrics[1].value[1] + 1) * TicksPerSec
    /\ (sleeps = <<>>
          /\ pc \in {"cells", "fetching_cells", "rows", "fetching_rows", "send"})
          => now >= Deadline

\* C15 happens: a wait that is no whole number of seconds was slept and
\* recorded, and a success rate was recorded after it
C15_Witness ==
    /\ sleeps # <<>>
    /\ sleeps[1].ticks % TicksPerSec # 0
    /\ Len(metrics) >= 2
    /\ metrics[1].name = "BlockDelay"

\* the order of the steps of one iteration
StepOrder ==
    {<<"recv", "sleep">>, <<"recv", "cells">>, <<"recv", "done">>,
     <<"sleep", "cells">>,
     <<"cells", "fetching_cells">>, <<"fetching_cells", "rows">>, <<"cells", "rows">>,
     <<"rows", "fetching_rows">>, <<"fetching_rows", "send">>, <<"rows", "send">>,
     <<"send", "recv">>}

\* C16: the steps of an iteration occur only in the order building, pacing,
\* cell sampling, row sampling, forwarding; the block is sent only after
\* every metric of it has been recorded; the next event is received only
\* once the current block has been forwarded or skipped.
C16_StepsInOrder ==
    /\ [](sends # <<>> => pc \in {"recv", "done"})
    /\ [](pc = "sleep" => metrics = <<>> /\ calls = <<>>)
    /\ [](pc = "cells" => calls = <<>> /\ RateNames = <<>>)
    /\ [](pc = "fetching_cells" => CallOps = <<"fetch_cells">> /\ RateNames = <<>>)
    /\ [](pc = "rows" => RowCalls = <<>>
                          /\ \A i \in 1..Len(metrics) : metrics[i].name # "RowsSuccessRate")
    /\ [](pc = "fetching_rows" =>
              /\ Len(RowCalls) = 1
              /\ \A i \in 1..Len(metrics) : metrics[i].name # "RowsSuccessRate")
    /\ [](\A i \in 1..Len(calls) :
              ~calls[i].answered => i = Len(calls) /\ pc \in {"fetching_cells", "fetching_rows"})
    /\ [][pc' # pc => <<pc, pc'>> \in StepOrder]_vars
    /\ [][cur' # cur => pc = "recv"]_vars
    /\ [][sends' # sends /\ sends' # <<>> => pc = "send" /\ metrics' = metrics]_vars
    /\ [][(metrics' # metrics \/ calls' # calls) /\ cur' = cur => sends = <<>>]_vars

\* C16 happens: a block was paced, cell-sampled and row-sampled and is about
\* to be sent while the next event waits in the buffer
C16_Witness ==
    /\ pc = "send"
    /\ sleeps # <<>>
    /\ CallOps = <<"fetch_cells", "fetch_rows">>
    /\ Len(metrics) = 3
    /\ chan # <<>>

\* C17: the rows requested for a block with E extended rows are exactly the
\* even indices below E, in increasing order: ceil(E/2) of them, none odd.
C17_EvenRowsRequested ==
    \A i \in 1..Len(RowCalls) :
        LET req == RowCalls[i].req
            E == ExtendedRows(cur)
        IN  /\ {req[k] : k \in 1..Len(req)} = {r \in 0..(E - 1) : r % 2 = 0}
            /\ \A k \in 1..(Len(req) - 1) : req[k] < req[k + 1]
            /\ 2 * Len(req) >= E
            /\ 2 * (Len(req) - 1) < E

\* C17 happens: rows 0 and 2 of a block with 4 extended rows were requested
C17_Witness ==
    /\ RowCalls # <<>>
    /\ ExtendedRows(cur) = 4
    /\ RowCalls[1].req = <<0, 2>>

RateMetrics == SelectSeq(metrics, LAMBDA m : m.name # "BlockDelay")

\* C18: every recorded success rate is a defined number in [0,1]: the
\* quotient is never taken with a zero total (no NaN, no infinity).
C18_RatesAreDefinedInUnitInterval ==
    \A i \in 1..Len(RateMetrics) :
        LET v == RateMetrics[i].value
        IN  /\ v[2] > 0
            /\ 0 <= v[1]
            /\ v[1] <= v[2]

\* the iteration of the last received header update is over
IterationOver == pc \in {"recv", "done"}

\* C19: once the iteration of a header update with a valid header and an
\* extension is over, exactly one send of that block was attempted, whatever
\* the mode and whatever was fetched; no iteration attempts a second send,
\* and none sends before the sampling steps are over.
C19_ExactlyOneSendPerBlock ==
    /\ Len(sends) <= 1
    /\ (cur.valid /\ cur.ext /\ IterationOver) =>
          /\ Len(sends) = 1
          /\ sends[1].block = cur.block_num
          /\ Len(SelectSeq(sent, LAMBDA b : b = cur.block_num)) = 1
    /\ (pc \in {"sleep", "cells", "fetching_cells", "rows", "fetching_rows", "send"}) =>
          /\ cur.valid /\ cur.ext
          /\ sends = <<>>

\* C19 happens: a block of which nothing was fetched (rate 0 / total) was sent
C19_Witness ==
    /\ IterationOver
    /\ Len(sends) = 1
    /\ \E i \in 1..Len(RateMetrics) :
          /\ RateMetrics[i].value[1] = 0
          /\ RateMetrics[i].value[2] > 0
          /\ RateMetrics[i].block = sends[1].block

\* C20: the outbound sequence only grows by appending the block of the header
\* update being processed, that block has a valid header and an extension,
\* and it is later in receive order than every block sent before: the sent
\* sequence is a duplicate-free, in-order subsequence of the received updates.
C20_SentIsSubsequenceOfReceived ==
    [][sent' # sent =>
          /\ sent' = Append(sent, cur.block_num)
          /\ cur' = cur
          /\ cur.valid /\ cur.ext
          /\ \A i \in 1..Len(sent) : sent[i] < cur.block_num]_vars

\* C20 happens: blocks 1 and 3 were sent, block 2 between them was not
C20_Witness == sent = <<1, 3>>

====
